---- MODULE Spec2Model ----
(***************************************************************************)
(* Model of the ingestion-and-notification pipeline of ipfs-demo           *)
(* (src/ipfs/main.go): the upload handler, the text-line metadata ledger   *)
(* (uploaded_files.txt), the GET /files reader, the WebSocket registry     *)
(* and the broadcast worker.                                               *)
(*                                                                         *)
(* Strings are sequences of one-character strings, so that formatting a   *)
(* ledger line and parsing it back are computed as the code computes them. *)
(* The ledger file is the sequence of its lines (every write of           *)
(* logFileInfo is one whole line ending in "\n", and bufio.Scanner hands   *)
(* the reader one line at a time); a failed write leaves no bytes.         *)
(* Fields "src" and the variables marked "history" are bookkeeping of the  *)
(* verification: no action's guard or program value depends on them.       *)
(***************************************************************************)
EXTENDS Integers, Sequences, FiniteSets, TLC

\* ------------------------------------------------------------------------
\* Bounds of the model
\* ------------------------------------------------------------------------
NReqs == 2          \* upload requests
NConns == 2         \* WebSocket connections
MaxParts == 2       \* file parts in one upload request
MaxFiles == 3       \* file parts in all upload requests together
MaxLines == 2       \* records appended in the ledger-only specification
MaxStr == 2         \* length of a filename in the ledger-only specification
MaxPeers == 3       \* addresses in the list given to Bootstrap
MaxAddrs == 3       \* addresses in the list given to connectToPeers
NPeerIDs == 2       \* peer IDs the addresses given to connectToPeers name

Reqs == 1..NReqs
Conns == 1..NConns
Peers == 1..MaxPeers
PeerIDs == 1..NPeerIDs

\* ------------------------------------------------------------------------
\* Text helpers (Go: strings.Split, strings.SplitN, fmt %d, fmt.Sscanf %d)
\* ------------------------------------------------------------------------
Digits == <<"0", "1", "2", "3", "4", "5", "6", "7", "8", "9">>

IsDigit(ch) == \E d \in 1..10 : Digits[d] = ch

DigitVal(ch) == (CHOOSE d \in 1..10 : Digits[d] = ch) - 1

RECURSIVE IntToStr(_)
\* fmt "%d" of a non-negative int64
IntToStr(n) ==
    IF n < 10 THEN <<Digits[n + 1]>>
    ELSE IntToStr(n \div 10) \o <<Digits[(n % 10) + 1]>>

\* strings.Index: position of the first occurrence of sep in s, 0 if none
Index(s, sep) ==
    LET hits == {i \in 1..(Len(s) - Len(sep) + 1) :
                    SubSeq(s, i, i + Len(sep) - 1) = sep}
    IN IF hits = {} THEN 0 ELSE CHOOSE i \in hits : \A j \in hits : i <= j

RECURSIVE SplitN(_, _, _)
\* strings.SplitN(s, sep, n) for n # 0; n < 0 is strings.Split
SplitN(s, sep, n) ==
    IF n = 1 THEN <<s>>
    ELSE LET i == Index(s, sep)
         IN IF i = 0 THEN <<s>>
            ELSE <<SubSeq(s, 1, i - 1)>>
                 \o SplitN(SubSeq(s, i + Len(sep), Len(s)), sep, n - 1)

Split(s, sep) == SplitN(s, sep, -1)

RECURSIVE SkipSpace(_)
SkipSpace(s) ==
    IF s # <<>> /\ Head(s) = " " THEN SkipSpace(Tail(s)) ELSE s

RECURSIVE DigitRun(_, _)
\* value of the longest prefix of digits of s, continuing from acc
DigitRun(s, acc) ==
    IF s # <<>> /\ IsDigit(Head(s))
    THEN DigitRun(Tail(s), 10 * acc + DigitVal(Head(s)))
    ELSE acc

\* fmt.Sscanf(s, "%d", &size) on a size that starts at `old`: leading blanks
\* are skipped, a sign is accepted, and without a digit the scan fails and
\* leaves the variable as it was.
ScanInt(s, old) ==
    LET t == SkipSpace(s)
        neg == t # <<>> /\ Head(t) = "-"
        u == IF t # <<>> /\ Head(t) \in {"+", "-"} THEN Tail(t) ELSE t
    IN IF u = <<>> \/ ~IsDigit(Head(u)) THEN old
       ELSE IF neg THEN 0 - DigitRun(u, 0) ELSE DigitRun(u, 0)

\* ------------------------------------------------------------------------
\* The ledger line format
\* ------------------------------------------------------------------------
CommaSp == <<",", " ">>
ColonSp == <<":", " ">>
KFilename == <<"F", "i", "l", "e", "n", "a", "m", "e">>
KCID == <<"C", "I", "D">>
KSize == <<"S", "i", "z", "e">>
KType == <<"T", "y", "p", "e">>
SBytes == <<" ", "b", "y", "t", "e", "s">>

\* type FileInfo struct
FileInfo(filename, cid, size, fileType) ==
    [Filename |-> filename, CID |-> cid, Size |-> size, Type |-> fileType]

ZeroFileInfo == FileInfo(<<>>, <<>>, 0, <<>>)

\* The line logFileInfo writes (without its final "\n")
FormatLine(filename, cid, size, fileType) ==
    KFilename \o ColonSp \o filename \o CommaSp
    \o KCID \o ColonSp \o cid \o CommaSp
    \o KSize \o ColonSp \o IntToStr(size) \o SBytes \o CommaSp
    \o KType \o ColonSp \o fileType

\* The switch of getFileInfosHandler on one "key: value" part
ApplyPart(fi, part) ==
    LET kv == SplitN(part, ColonSp, 2)
    IN IF Len(kv) # 2 THEN fi
       ELSE IF kv[1] = KFilename THEN [fi EXCEPT !.Filename = kv[2]]
       ELSE IF kv[1] = KCID THEN [fi EXCEPT !.CID = kv[2]]
       ELSE IF kv[1] = KSize THEN [fi EXCEPT !.Size = ScanInt(kv[2], fi.Size)]
       ELSE IF kv[1] = KType THEN [fi EXCEPT !.Type = kv[2]]
       ELSE fi

RECURSIVE ApplyParts(_, _)
ApplyParts(fi, parts) ==
    IF parts = <<>> THEN fi
    ELSE ApplyParts(ApplyPart(fi, Head(parts)), Tail(parts))

\* Is the line kept by the reader (len(parts) == 4)?
LineKept(line) == Len(Split(line, CommaSp)) = 4

\* The FileInfo the reader builds from a kept line
ParseLine(line) == ApplyParts(ZeroFileInfo, Split(line, CommaSp))

RECURSIVE ReadLedger(_)
\* The scanner loop of getFileInfosHandler over the lines of the file; each
\* result keeps the src tag of the line it was read from.
ReadLedger(lines) ==
    IF lines = <<>> THEN <<>>
    ELSE LET l == Head(lines)
         IN (IF LineKept(l.line)
             THEN <<[info |-> ParseLine(l.line), src |-> l.src]>>
             ELSE <<>>) \o ReadLedger(Tail(lines))

\* The JSON array of a response: the records without their src tags
Body(tagged) == [i \in 1..Len(tagged) |-> tagged[i].info]

\* ------------------------------------------------------------------------
\* Inputs of the pipeline: the file parts a client can put in a request
\* ------------------------------------------------------------------------
\* A multipart file part: declared filename, content, size, Content-Type.
\* PartB carries a filename with a comma and a blank in it.
PartA == [Filename |-> <<"a">>, Content |-> "A", Size |-> 100,
          Type |-> <<"t">>]
PartB == [Filename |-> <<"b", ",", " ", "c">>, Content |-> "B", Size |-> 200,
          Type |-> <<"t">>]

\* The i-th file part of a request
PartAt(i) == IF i % 2 = 1 THEN PartA ELSE PartB

\* r.MultipartForm.File["files"] of a request that parsed: 0..MaxParts parts
Forms == {[i \in 1..n |-> PartAt(i)] : n \in 0..MaxParts}

\* Forms whose parts are any of the two, so that a form can hold the same
\* content twice
AnyForms == UNION {[1..n -> {PartA, PartB}] : n \in 0..MaxParts}

\* ipldNode.Cid().String(): derived from the content alone
CidOf(content) == <<"Q", "m", content>>

VARIABLES
    ledger,      \* uploaded_files.txt: sequence of [line, src]
    appended,    \* history: the FileInfos whose append succeeded, in order
    store,       \* Content Store: the CIDs whose bytes it holds
    stored,      \* history: <<request, part>> of every successful AddFile
    storeCalls,  \* history: per request, the number of AddFile calls made
    storeFailed, \* history: <<request, part>> of every failed AddFile
    logFailed,   \* history: <<request, part>> of every failed logFileInfo
    up,          \* per upload request: the handler's locals and its answer
    getStatus,   \* status of the last GET /files answer (0: none yet)
    getBody,     \* records of the last GET /files answer, with src tags
    getJSON,     \* the JSON value in the body of the last GET /files answer
    clients,     \* the registry: map[*websocket.Conn]bool
    mu,          \* sync.Mutex: <<>> free, <<"w">> worker, <<"c", c>> handler
    ws,          \* per WebSocket request: the handler's position
    alive,       \* per connection: is its transport still open
    deadObs,     \* history, kept while an event is being delivered: the
                 \* connections that were in the registry with their
                 \* transport down when that event was published
    closed,      \* per connection: has the server called conn.Close()
    inbox,       \* per connection: the messages written to it, in order
    wpc,         \* broadcastFiles: position of the worker
    wfile,       \* broadcastFiles: the fileInfo it took from the channel
    wtodo,       \* broadcastFiles: connections the range loop has yet to visit
    published,   \* history: the events taken from broadcastChan, in order
    bpc,         \* Bootstrap: position of the routine
    bpeers,      \* Bootstrap: len(peers)
    bnext,       \* Bootstrap: index of the next peer of the launching loop
    bi,          \* Bootstrap: the counter i
    warned,      \* Bootstrap: has the warning been logged
    gpc,         \* per peer: position of its dialing goroutine
    dialOk,      \* history: the peers whose Connect returned nil
    dialErr,     \* history: the peers whose Connect error was logged
    wg,          \* Bootstrap: counter of the sync.WaitGroup
    cpc,         \* Bootstrap: position of the goroutine that closes connected
    chClosed,    \* Bootstrap: has the channel connected been closed
    kpc,         \* connectToPeers: position of the routine
    kaddrs,      \* connectToPeers: the list peers
    knext,       \* connectToPeers: index of the next address to parse
    kinfos,      \* connectToPeers: the keys of the map peerInfos
    kwg,         \* connectToPeers: counter of the sync.WaitGroup
    kg,          \* per peer ID: position of its connecting goroutine
    kok,         \* history: the peer IDs whose Swarm().Connect returned nil
    kerr,        \* history: the peer IDs whose Connect error was logged
    kret         \* connectToPeers: what it returned ("" while it has not)

vars == <<ledger, appended, store, stored, storeCalls, storeFailed, logFailed,
          up, getStatus, getBody, getJSON, clients, mu, ws, alive, deadObs, closed,
          inbox, wpc, wfile, wtodo, published, bpc, bpeers, bnext, bi, warned,
          gpc, dialOk, dialErr, wg, cpc, chClosed, kpc, kaddrs, knext, kinfos,
          kwg, kg, kok, kerr, kret>>

ledgerVars == <<ledger, appended, getStatus, getBody, getJSON>>
uploadVars == <<store, stored, storeCalls, storeFailed, logFailed, up>>
hubVars == <<clients, mu, ws, alive, deadObs, closed, inbox, wpc, wfile, wtodo,
             published>>
bootVars == <<bpc, bpeers, bnext, bi, warned, gpc, dialOk, dialErr, wg, cpc,
              chClosed>>
connVars == <<kpc, kaddrs, knext, kinfos, kwg, kg, kok, kerr, kret>>

MuFree == <<>>
MuWorker == <<"w">>
MuConn(c) == <<"c", c>>

\* No JSON body: no answer yet, or the text of http.Error
NoJSON == [kind |-> "none", items |-> <<>>]

NoEvent == [info |-> ZeroFileInfo, src |-> <<0, 0>>]

UpInit == [pc |-> "parse", files |-> <<>>, idx |-> 0, fileInfos |-> <<>>,
           status |-> 0, msg |-> "", body |-> <<>>]

Init ==
    /\ ledger = <<>>
    /\ appended = <<>>
    /\ store = {}
    /\ stored = {}
    /\ storeCalls = [r \in Reqs |-> 0]
    /\ storeFailed = {}
    /\ logFailed = {}
    /\ up = [r \in Reqs |-> UpInit]
    /\ getStatus = 0
    /\ getBody = <<>>
    /\ getJSON = NoJSON
    /\ clients = {}
    /\ mu = MuFree
    /\ ws = [c \in Conns |-> "upgrade"]
    /\ alive = [c \in Conns |-> FALSE]
    /\ deadObs = {}
    /\ closed = [c \in Conns |-> FALSE]
    /\ inbox = [c \in Conns |-> <<>>]
    /\ wpc = "recv"
    /\ wfile = NoEvent
    /\ wtodo = {}
    /\ published = <<>>
    /\ bpc = "idle"
    /\ bpeers = 0
    /\ bnext = 1
    /\ bi = 0
    /\ warned = FALSE
    /\ gpc = [p \in Peers |-> "idle"]
    /\ dialOk = {}
    /\ dialErr = {}
    /\ wg = 0
    /\ cpc = "idle"
    /\ chClosed = FALSE
    /\ kpc = "idle"
    /\ kaddrs = <<>>
    /\ knext = 1
    /\ kinfos = {}
    /\ kwg = 0
    /\ kg = [id \in PeerIDs |-> "idle"]
    /\ kok = {}
    /\ kerr = {}
    /\ kret = ""

\* ------------------------------------------------------------------------
\* Metadata ledger
\* ------------------------------------------------------------------------
\* Variant: a record whose CID is in the file already is not written again
LogFileInfo_Dedup(lines, fi, src) ==
    IF \E i \in 1..Len(lines) :
          Index(lines[i].line, KCID \o ColonSp \o fi.CID \o CommaSp) # 0
    THEN lines
    ELSE Append(lines,
                [line |-> FormatLine(fi.Filename, fi.CID, fi.Size, fi.Type),
                 src |-> src])

\* logFileInfo, successful: one line is appended to the file
LogFileInfo(lines, fi, src) ==
    Append(lines, [line |-> FormatLine(fi.Filename, fi.CID, fi.Size, fi.Type),
                   src |-> src])

\* json.NewEncoder(w).Encode(fileInfos) of a []FileInfo: a slice declared
\* with var and never appended to is nil and is encoded as null; any other
\* is encoded as the array of its records, each an object with the keys of
\* the struct tags
EncodeJSON(fileInfos) ==
    IF fileInfos = <<>>
    THEN [kind |-> "null", items |-> <<>>]
    ELSE [kind |-> "array",
          items |-> [i \in 1..Len(fileInfos) |->
                       [filename |-> fileInfos[i].Filename,
                        cid |-> fileInfos[i].CID,
                        size |-> fileInfos[i].Size,
                        type |-> fileInfos[i].Type]]]

\* getFileInfosHandler: GET /files
GetFiles ==
    /\ \/ /\ getStatus' = 200                    \* the file could be opened
          /\ getBody' = ReadLedger(ledger)
          /\ getJSON' = EncodeJSON(Body(ReadLedger(ledger)))
       \/ /\ getStatus' = 500                    \* os.Open failed
          /\ getBody' = <<>>
          /\ getJSON' = NoJSON
    /\ UNCHANGED <<ledger, appended>>
    /\ UNCHANGED uploadVars
    /\ UNCHANGED hubVars
    /\ UNCHANGED bootVars
    /\ UNCHANGED connVars

\* ------------------------------------------------------------------------
\* uploadHandler: POST /upload
\* ------------------------------------------------------------------------
\* http.Error / the final Encode: the handler answers and returns
Answer(u, status, msg, body) ==
    [u EXCEPT !.pc = "done", !.status = status, !.msg = msg, !.body = body]

RECURSIVE FilesUpTo(_)
\* Number of file parts in the forms of requests 1..n
FilesUpTo(n) == IF n = 0 THEN 0 ELSE Len(up[n].files) + FilesUpTo(n - 1)

\* r.ParseMultipartForm and the files == nil test. Requests are numbered in
\* the order in which their handlers start.
ParseFrom(r, forms) ==
    /\ up[r].pc = "parse"
    /\ IF r = 1 THEN TRUE ELSE up[r - 1].pc # "parse"
    /\ \/ up' = [up EXCEPT ![r] = Answer(@, 400, "parse", <<>>)]
       \/ \E f \in forms :
             /\ Len(f) + FilesUpTo(NReqs) <= MaxFiles
             /\ IF Len(f) = 0
                THEN up' = [up EXCEPT ![r] = Answer(@, 400, "nofiles", <<>>)]
                ELSE up' = [up EXCEPT ![r] = [@ EXCEPT !.pc = "add",
                                                       !.files = f, !.idx = 1]]
    /\ UNCHANGED <<store, stored, storeCalls, storeFailed, logFailed>>
    /\ UNCHANGED ledgerVars
    /\ UNCHANGED hubVars
    /\ UNCHANGED bootVars
    /\ UNCHANGED connVars

\* The same for a request whose form is one of Forms
ParseForm(r) == ParseFrom(r, Forms)

\* The same for a request whose form is one of AnyForms
ParseAnyForm(r) == ParseFrom(r, AnyForms)

\* fileHeader.Open() fails: the handler answers 400 and returns
OpenFail(u) == Answer(u, 400, "open", <<>>)

\* Variant: the return after the failed AddFile is missing, the turn goes on
AddFileFail_NoReturn(u) ==
    [u EXCEPT !.pc = "log", !.fileInfos = Append(@, ZeroFileInfo)]

\* Variant: the failed AddFile skips the part (continue instead of return)
AddFileFail_Continue(u) ==
    IF u.idx < Len(u.files)
    THEN [u EXCEPT !.idx = @ + 1]
    ELSE Answer(u, 500, "store", <<>>)

\* ipfsNode.AddFile fails: the handler answers 500 and returns
AddFileFail(u) == Answer(u, 500, "store", <<>>)

\* Variant: the new FileInfo is put in front
AppendInfo_Front(fileInfos, fi) == <<fi>> \o fileInfos

\* fileInfos = append(fileInfos, fileInfo)
AppendInfo(fileInfos, fi) == Append(fileInfos, fi)

\* fileInfo := FileInfo{...} of a part whose AddFile succeeded
InfoOf(part) ==
    FileInfo(part.Filename, CidOf(part.Content), part.Size, part.Type)

\* One turn of the loop up to the FileInfo: fileHeader.Open() and
\* ipfsNode.AddFile of the current part, then the FileInfo is built
AddFile(r) ==
    LET part == up[r].files[up[r].idx]
        fi == InfoOf(part)
    IN /\ up[r].pc = "add"
       /\ \/ /\ up' = [up EXCEPT ![r] = OpenFail(@)]
             /\ UNCHANGED <<store, stored, storeCalls, storeFailed>>
          \/ /\ storeCalls' = [storeCalls EXCEPT ![r] = @ + 1]
             /\ storeFailed' = storeFailed \cup {<<r, up[r].idx>>}
             /\ up' = [up EXCEPT ![r] = AddFileFail(@)]
             /\ UNCHANGED <<store, stored>>
          \/ /\ storeCalls' = [storeCalls EXCEPT ![r] = @ + 1]
             /\ store' = store \cup {CidOf(part.Content)}
             /\ stored' = stored \cup {<<r, up[r].idx>>}
             /\ up' = [up EXCEPT ![r] =
                         [@ EXCEPT !.pc = "log",
                                   !.fileInfos = AppendInfo(@, fi)]]
             /\ UNCHANGED storeFailed
       /\ UNCHANGED logFailed
       /\ UNCHANGED ledgerVars
       /\ UNCHANGED hubVars
       /\ UNCHANGED bootVars
       /\ UNCHANGED connVars

\* Variant: the return after the failed logFileInfo is missing
LogFail_NoReturn(u) == [u EXCEPT !.pc = "send"]

\* logFileInfo fails: the handler answers 500 and returns
LogFail(u) == Answer(u, 500, "log", <<>>)

\* Variant: the handler does not send the event: it goes on to the next
\* part, or answers, right after the append
AfterLog_NoSend(u) ==
    IF u.idx < Len(u.files)
    THEN [u EXCEPT !.pc = "add", !.idx = @ + 1]
    ELSE [u EXCEPT !.pc = "done", !.status = 200, !.body = u.fileInfos]

\* logFileInfo returned nil: the handler is at broadcastChan <- fileInfo
AfterLog(u) == [u EXCEPT !.pc = "send"]

\* logFileInfo of the FileInfo just built
LogInfo(r) ==
    LET fi == up[r].fileInfos[Len(up[r].fileInfos)]
        src == <<r, up[r].idx>>
    IN /\ up[r].pc = "log"
       /\ \/ /\ ledger' = LogFileInfo(ledger, fi, src)
             /\ appended' = Append(appended, [info |-> fi, src |-> src])
             /\ up' = [up EXCEPT ![r] = AfterLog(@)]
             /\ UNCHANGED logFailed
          \/ /\ up' = [up EXCEPT ![r] = LogFail(@)]
             /\ logFailed' = logFailed \cup {src}
             /\ UNCHANGED <<ledger, appended>>
       /\ UNCHANGED <<store, stored, storeCalls, storeFailed, getStatus,
                      getBody, getJSON>>
       /\ UNCHANGED hubVars
       /\ UNCHANGED bootVars
       /\ UNCHANGED connVars

\* Variant: the handler answers 500 when a registered connection cannot be
\* written to
AfterSend_Surface(u) ==
    IF \E c \in clients : ~alive[c] \/ closed[c]
    THEN [u EXCEPT !.pc = "done", !.status = 500, !.msg = "send"]
    ELSE IF u.idx < Len(u.files)
         THEN [u EXCEPT !.pc = "add", !.idx = @ + 1]
         ELSE [u EXCEPT !.pc = "done", !.status = 200, !.body = u.fileInfos]

\* Variant: the handler stays at its send and sends the same event again
AfterSend_Stay(u) == u

\* The handler after its send on the channel completed: the next turn of
\* the loop or, after the last part, the 200 answer with fileInfos
AfterSend(u) ==
    IF u.idx < Len(u.files)
    THEN [u EXCEPT !.pc = "add", !.idx = @ + 1]
    ELSE Answer(u, 200, "", u.fileInfos)

\* broadcastChan <- fileInfo meets fileInfo := <-broadcastChan: the channel
\* is unbuffered, so the send completes when the worker takes the value.
Publish(r) ==
    LET ev == [info |-> up[r].fileInfos[Len(up[r].fileInfos)],
               src |-> <<r, up[r].idx>>]
    IN /\ up[r].pc = "send"
       /\ wpc = "recv"
       /\ wfile' = ev
       /\ published' = Append(published, ev)
       /\ wpc' = "lock"
       /\ up' = [up EXCEPT ![r] = AfterSend(@)]
       /\ UNCHANGED <<store, stored, storeCalls, storeFailed, logFailed>>
       /\ UNCHANGED ledgerVars
       /\ deadObs' = {c \in clients : ~alive[c]}
       /\ UNCHANGED <<clients, mu, ws, alive, closed, inbox, wtodo>>
       /\ UNCHANGED bootVars
       /\ UNCHANGED connVars

\* ------------------------------------------------------------------------
\* wsHandler: GET /socket
\* ------------------------------------------------------------------------
\* upgrader.Upgrade: on failure the handler answers 500 and returns.
\* Connections are numbered in the order in which they are upgraded.
Upgrade(c) ==
    /\ ws[c] = "upgrade"
    /\ IF c = 1 THEN TRUE ELSE ws[c - 1] # "upgrade"
    /\ \/ /\ ws' = [ws EXCEPT ![c] = "lock1"]
          /\ alive' = [alive EXCEPT ![c] = TRUE]
       \/ /\ ws' = [ws EXCEPT ![c] = "done"]
          /\ UNCHANGED alive
    /\ UNCHANGED <<clients, mu, deadObs, closed, inbox, wpc, wfile, wtodo,
                   published>>
    /\ UNCHANGED ledgerVars
    /\ UNCHANGED uploadVars
    /\ UNCHANGED bootVars
    /\ UNCHANGED connVars

\* The peer or the network closes the transport of an upgraded connection
TransportDown(c) ==
    /\ ws[c] \in {"lock1", "reg", "read"}
    /\ alive[c]
    /\ alive' = [alive EXCEPT ![c] = FALSE]
    /\ UNCHANGED deadObs
    /\ UNCHANGED <<clients, mu, ws, closed, inbox, wpc, wfile, wtodo,
                   published>>
    /\ UNCHANGED ledgerVars
    /\ UNCHANGED uploadVars
    /\ UNCHANGED bootVars
    /\ UNCHANGED connVars

\* Variant: the handler goes on to register without waiting for the mutex
WsLockReg_NoWait(c) ==
    /\ ws[c] = "lock1"
    /\ mu' = MuConn(c)
    /\ ws' = [ws EXCEPT ![c] = "reg"]
    /\ UNCHANGED <<clients, alive, deadObs, closed, inbox, wpc, wfile, wtodo,
                   published>>
    /\ UNCHANGED ledgerVars
    /\ UNCHANGED uploadVars
    /\ UNCHANGED bootVars
    /\ UNCHANGED connVars

\* mu.Lock() before the registration
WsLockReg(c) ==
    /\ ws[c] = "lock1"
    /\ mu = MuFree
    /\ mu' = MuConn(c)
    /\ ws' = [ws EXCEPT ![c] = "reg"]
    /\ UNCHANGED <<clients, alive, deadObs, closed, inbox, wpc, wfile, wtodo,
                   published>>
    /\ UNCHANGED ledgerVars
    /\ UNCHANGED uploadVars
    /\ UNCHANGED bootVars
    /\ UNCHANGED connVars

\* clients[conn] = true; mu.Unlock()
WsRegister(c) ==
    /\ ws[c] = "reg"
    /\ clients' = clients \cup {c}
    /\ mu' = MuFree
    /\ ws' = [ws EXCEPT ![c] = "read"]
    /\ UNCHANGED <<alive, deadObs, closed, inbox, wpc, wfile, wtodo, published>>
    /\ UNCHANGED ledgerVars
    /\ UNCHANGED uploadVars
    /\ UNCHANGED bootVars
    /\ UNCHANGED connVars

\* conn.ReadMessage() has returned an error (the transport is gone, or the
\* worker has closed the connection; a successful read changes nothing),
\* and mu.Lock() before the removal
WsLockDel(c) ==
    /\ ws[c] = "read"
    /\ ~alive[c] \/ closed[c]
    /\ mu = MuFree
    /\ mu' = MuConn(c)
    /\ ws' = [ws EXCEPT ![c] = "del"]
    /\ UNCHANGED <<clients, alive, deadObs, closed, inbox, wpc, wfile, wtodo,
                   published>>
    /\ UNCHANGED ledgerVars
    /\ UNCHANGED uploadVars
    /\ UNCHANGED bootVars
    /\ UNCHANGED connVars

\* Variant: the read loop leaves its connection in the registry
Delete_Keep(reg, c) == reg

\* Variant: deleting a connection that is absent puts it back
Delete_Toggle(reg, c) == IF c \in reg THEN reg \ {c} ELSE reg \cup {c}

\* delete(clients, conn) of the read loop: the registry without c, which may
\* be absent already
Delete(reg, c) == reg \ {c}

\* delete(clients, conn); mu.Unlock()
WsDelete(c) ==
    /\ ws[c] = "del"
    /\ clients' = Delete(clients, c)
    /\ mu' = MuFree
    /\ ws' = [ws EXCEPT ![c] = "close"]
    /\ UNCHANGED <<alive, deadObs, closed, inbox, wpc, wfile, wtodo, published>>
    /\ UNCHANGED ledgerVars
    /\ UNCHANGED uploadVars
    /\ UNCHANGED bootVars
    /\ UNCHANGED connVars

\* The deferred conn.Close() as the handler returns
WsClose(c) ==
    /\ ws[c] = "close"
    /\ closed' = [closed EXCEPT ![c] = TRUE]
    /\ ws' = [ws EXCEPT ![c] = "done"]
    /\ UNCHANGED <<clients, mu, alive, deadObs, inbox, wpc, wfile, wtodo,
                   published>>
    /\ UNCHANGED ledgerVars
    /\ UNCHANGED uploadVars
    /\ UNCHANGED bootVars
    /\ UNCHANGED connVars

\* ------------------------------------------------------------------------
\* broadcastFiles: the delivery worker
\* ------------------------------------------------------------------------
\* Variant: the worker starts its loop without waiting for the mutex
WLock_NoWait ==
    /\ wpc = "lock"
    /\ mu' = MuWorker
    /\ wtodo' = clients
    /\ wpc' = "range"
    /\ UNCHANGED <<clients, ws, alive, deadObs, closed, inbox, wfile, published>>
    /\ UNCHANGED ledgerVars
    /\ UNCHANGED uploadVars
    /\ UNCHANGED bootVars
    /\ UNCHANGED connVars

\* mu.Lock(); the range loop starts over the registry as it is now
WLock ==
    /\ wpc = "lock"
    /\ mu = MuFree
    /\ mu' = MuWorker
    /\ wtodo' = clients
    /\ wpc' = "range"
    /\ UNCHANGED <<clients, ws, alive, deadObs, closed, inbox, wfile, published>>
    /\ UNCHANGED ledgerVars
    /\ UNCHANGED uploadVars
    /\ UNCHANGED bootVars
    /\ UNCHANGED connVars

\* Does conn.WriteJSON return nil: the transport is open and nobody has
\* closed the connection
WriteOk(c) == alive[c] /\ ~closed[c]

\* Variant: the message is put before the last one sent
WriteJSON_Swap(box, n, fi) ==
    IF box = <<>> THEN <<[seq |-> n, info |-> fi]>>
    ELSE SubSeq(box, 1, Len(box) - 1)
         \o <<[seq |-> n, info |-> fi], box[Len(box)]>>

\* Variant: the message overtakes the ones sent before it
WriteJSON_Front(box, n, fi) == <<[seq |-> n, info |-> fi]>> \o box

\* conn.WriteJSON(fileInfo), successful: the message reaches the connection.
\* A message is tagged with its position in the publication order.
WriteJSON(box, n, fi) == Append(box, [seq |-> n, info |-> fi])

\* Variant: a failed send empties the registry
Prune_All(reg, c) == {}

\* Variant: the failed connection stays in the registry
Prune_Keep(reg, c) == reg

\* The registry after a failed send to c: delete(clients, conn)
Prune(reg, c) == reg \ {c}

\* Variant: a failed send ends the loop (break)
RestAfter_Break(todo, c, ok) == IF ok THEN todo \ {c} ELSE {}

\* The connections the range loop still has to visit after its turn for c:
\* the loop goes on whether the send succeeded (ok) or not
RestAfter(todo, c, ok) == todo \ {c}

\* One turn of the range loop: the send to c and, if it fails, the pruning
WSend(c) ==
    /\ wpc = "range"
    /\ c \in wtodo
    /\ wtodo' = RestAfter(wtodo, c, WriteOk(c))
    /\ IF WriteOk(c)
       THEN /\ inbox' = [inbox EXCEPT ![c] =
                            WriteJSON(@, Len(published), wfile.info)]
            /\ UNCHANGED <<clients, closed>>
       ELSE /\ closed' = [closed EXCEPT ![c] = TRUE]
            /\ clients' = Prune(clients, c)
            /\ UNCHANGED inbox
    /\ UNCHANGED <<mu, ws, alive, deadObs, wpc, wfile, published>>
    /\ UNCHANGED ledgerVars
    /\ UNCHANGED uploadVars
    /\ UNCHANGED bootVars
    /\ UNCHANGED connVars

\* The range loop is over: mu.Unlock(), back to the receive
WUnlock ==
    /\ wpc = "range"
    /\ wtodo = {}
    /\ mu' = MuFree
    /\ wpc' = "recv"
    /\ deadObs' = {}
    /\ UNCHANGED <<clients, ws, alive, closed, inbox, wfile, wtodo,
                   published>>
    /\ UNCHANGED ledgerVars
    /\ UNCHANGED uploadVars
    /\ UNCHANGED bootVars
    /\ UNCHANGED connVars

\* ------------------------------------------------------------------------
\* The pipeline: uploads, registry and delivery worker. GET /files only
\* reads the ledger; it is served in the ledger specification below, and
\* what it would return in a state of the pipeline is ReadLedger(ledger).
\* ------------------------------------------------------------------------
Next ==
    \/ \E r \in Reqs : ParseForm(r)
    \/ \E r \in Reqs : AddFile(r)
    \/ \E r \in Reqs : LogInfo(r)
    \/ \E r \in Reqs : Publish(r)
    \/ \E c \in Conns : Upgrade(c)
    \/ \E c \in Conns : TransportDown(c)
    \/ \E c \in Conns : WsLockReg(c)
    \/ \E c \in Conns : WsRegister(c)
    \/ \E c \in Conns : WsLockDel(c)
    \/ \E c \in Conns : WsDelete(c)
    \/ \E c \in Conns : WsClose(c)
    \/ WLock
    \/ \E c \in Conns : WSend(c)
    \/ WUnlock

Spec == Init /\ [][Next]_vars

\* Scheduling of the publication path: a step of a goroutine that stays
\* possible is taken. A goroutine that holds the mutex runs on to its
\* Unlock, the sends of the worker return, a sender blocked on broadcastChan
\* is served once the worker is back at its receive (the senders wait in
\* the channel's queue), and a goroutine waiting in mu.Lock() gets the
\* mutex (sync.Mutex hands it over to a waiter). Requests, connections and
\* the loss of a transport come from outside: nothing makes them happen.
Fairness ==
    /\ \A r \in Reqs : WF_vars(Publish(r))
    /\ \A c \in Conns : WF_vars(WsRegister(c)) /\ WF_vars(WsDelete(c))
    /\ WF_vars(WLock)
    /\ \A c \in Conns : WF_vars(WSend(c))
    /\ WF_vars(WUnlock)

SpecFair == Spec /\ Fairness

\* ------------------------------------------------------------------------
\* The ledger on its own: logFileInfo called with any record, one line of
\* the file corrupted from outside, and GET /files
\* ------------------------------------------------------------------------
Chars == {"a", ",", " "}

\* All strings of length lo..hi over Chars
Strings(lo, hi) == UNION {[1..n -> Chars] : n \in lo..hi}

Names == Strings(1, MaxStr)
Types == {<<>>, <<"t">>}
Sizes == {0, 1234}

\* Lines that logFileInfo writes for no record
Garbage == <<"x">>
CorruptLines ==
    { <<>>,
      Garbage,
      \* a line cut short
      KFilename \o ColonSp \o <<"a">> \o CommaSp \o KCID \o ColonSp \o <<"Q">>,
      \* four parts, none of them a field
      Garbage \o CommaSp \o Garbage \o CommaSp \o Garbage \o CommaSp \o Garbage,
      \* four parts, the last field name damaged
      KFilename \o ColonSp \o <<"a">> \o CommaSp \o KCID \o ColonSp \o <<"Q">>
        \o CommaSp \o KSize \o ColonSp \o <<"7">> \o SBytes \o CommaSp
        \o <<"T", "y", "p">> \o ColonSp \o <<"t">> }

CorruptSrc == <<0, 0>>

\* Number of corrupted lines in the file
Corrupted == Cardinality({i \in 1..Len(ledger) : ledger[i].src = CorruptSrc})

\* s with x put in front of position pos
InsertAt(s, pos, x) ==
    SubSeq(s, 1, pos - 1) \o <<x>> \o SubSeq(s, pos, Len(s))

\* logFileInfo(filename, cid, size, fileType), successful
LAppend ==
    /\ Len(appended) < MaxLines
    /\ \E filename \in Names, size \in Sizes, fileType \in Types :
          LET fi == FileInfo(filename, CidOf("A"), size, fileType)
              src == <<0, Len(appended) + 1>>
          IN /\ ledger' = LogFileInfo(ledger, fi, src)
             /\ appended' = Append(appended, [info |-> fi, src |-> src])
    /\ UNCHANGED <<getStatus, getBody, getJSON>>
    /\ UNCHANGED uploadVars
    /\ UNCHANGED hubVars
    /\ UNCHANGED bootVars
    /\ UNCHANGED connVars

\* One line of the file is corrupted: a line no record is written as
\* appears at some position
LCorrupt ==
    /\ Corrupted = 0
    /\ \E pos \in 1..(Len(ledger) + 1), line \in CorruptLines :
          ledger' = InsertAt(ledger, pos, [line |-> line, src |-> CorruptSrc])
    /\ UNCHANGED <<appended, getStatus, getBody, getJSON>>
    /\ UNCHANGED uploadVars
    /\ UNCHANGED hubVars
    /\ UNCHANGED bootVars
    /\ UNCHANGED connVars

NextLedger ==
    \/ LAppend
    \/ LCorrupt
    \/ GetFiles

SpecLedger == Init /\ [][NextLedger]_vars

\* ------------------------------------------------------------------------
\* Uploads and GET /files in one process, with no WebSocket connection: the
\* worker takes each event and finds the registry empty
\* ------------------------------------------------------------------------
NextFiles ==
    \/ \E r \in Reqs : ParseAnyForm(r)
    \/ \E r \in Reqs : AddFile(r)
    \/ \E r \in Reqs : LogInfo(r)
    \/ \E r \in Reqs : Publish(r)
    \/ WLock
    \/ WUnlock
    \/ GetFiles

SpecFiles == Init /\ [][NextFiles]_vars

\* ------------------------------------------------------------------------
\* Peer.Bootstrap: one dialing goroutine per peer, a goroutine that closes
\* the channel connected once they are all done, and the counting loop
\* ------------------------------------------------------------------------
pipelineVars == <<ledgerVars, uploadVars, hubVars>>

\* Bootstrap(peers) is called with a list of n peers
BCall(n) ==
    /\ bpc = "idle"
    /\ bpeers' = n
    /\ bpc' = "launch"
    /\ UNCHANGED <<bnext, bi, warned, gpc, dialOk, dialErr, wg, cpc, chClosed>>
    /\ UNCHANGED pipelineVars
    /\ UNCHANGED connVars

\* One turn of the launching loop: wg.Add(1); go func(pinfo) {...}(pinfo)
BLaunch ==
    /\ bpc = "launch"
    /\ bnext <= bpeers
    /\ wg' = wg + 1
    /\ gpc' = [gpc EXCEPT ![bnext] = "dial"]
    /\ bnext' = bnext + 1
    /\ UNCHANGED <<bpc, bpeers, bi, warned, dialOk, dialErr, cpc, chClosed>>
    /\ UNCHANGED pipelineVars
    /\ UNCHANGED connVars

\* After the launching loop: go func() { wg.Wait(); close(connected) }() and
\* i := 0; the routine is at its range over connected
BLaunchCloser ==
    /\ bpc = "launch"
    /\ bnext > bpeers
    /\ cpc' = "wait"
    /\ bi' = 0
    /\ bpc' = "range"
    /\ UNCHANGED <<bpeers, bnext, warned, gpc, dialOk, dialErr, wg, chClosed>>
    /\ UNCHANGED pipelineVars
    /\ UNCHANGED connVars

\* Variant: the goroutine of a failed dial ends without wg.Done()
OnDialError_NoDone == "done"

\* Position of a dialing goroutine after a failed Connect: it logs the error
\* and returns, and the deferred wg.Done() is still to run
OnDialError == "exit"

\* p.host.Connect returns in the goroutine of peer p: nil, and the goroutine
\* goes on to its send on connected, or an error, which is logged
GDial(p) ==
    /\ gpc[p] = "dial"
    /\ \/ /\ gpc' = [gpc EXCEPT ![p] = "send"]
          /\ dialOk' = dialOk \cup {p}
          /\ UNCHANGED dialErr
       \/ /\ gpc' = [gpc EXCEPT ![p] = OnDialError]
          /\ dialErr' = dialErr \cup {p}
          /\ UNCHANGED dialOk
    /\ UNCHANGED <<bpc, bpeers, bnext, bi, warned, wg, cpc, chClosed>>
    /\ UNCHANGED pipelineVars
    /\ UNCHANGED connVars

\* Variant: a signal is counted twice
Incr_Twice(i) == i + 2

\* i++
Incr(i) == i + 1

\* connected <- struct{}{} of the goroutine of peer p meets a turn of
\* "for range connected": the channel is unbuffered
BReceive(p) ==
    /\ gpc[p] = "send"
    /\ bpc = "range"
    /\ ~chClosed
    /\ bi' = Incr(bi)
    /\ gpc' = [gpc EXCEPT ![p] = "exit"]
    /\ UNCHANGED <<bpc, bpeers, bnext, warned, dialOk, dialErr, wg, cpc,
                   chClosed>>
    /\ UNCHANGED pipelineVars
    /\ UNCHANGED connVars

\* The deferred wg.Done() as the goroutine of peer p returns
GDone(p) ==
    /\ gpc[p] = "exit"
    /\ wg' = wg - 1
    /\ gpc' = [gpc EXCEPT ![p] = "done"]
    /\ UNCHANGED <<bpc, bpeers, bnext, bi, warned, dialOk, dialErr, cpc,
                   chClosed>>
    /\ UNCHANGED pipelineVars
    /\ UNCHANGED connVars

\* wg.Wait() returns and close(connected)
CClose ==
    /\ cpc = "wait"
    /\ wg = 0
    /\ chClosed' = TRUE
    /\ cpc' = "done"
    /\ UNCHANGED <<bpc, bpeers, bnext, bi, warned, gpc, dialOk, dialErr, wg>>
    /\ UNCHANGED pipelineVars
    /\ UNCHANGED connVars

\* "for range connected" ends: the channel is closed
BRangeEnd ==
    /\ bpc = "range"
    /\ chClosed
    /\ bpc' = "check"
    /\ UNCHANGED <<bpeers, bnext, bi, warned, gpc, dialOk, dialErr, wg, cpc,
                   chClosed>>
    /\ UNCHANGED pipelineVars
    /\ UNCHANGED connVars

\* nPeers/2 of Go: the quotient of the integer division
Half(nPeers) == nPeers \div 2

\* if nPeers := len(peers); i < nPeers/2 { log.Printf("only connected ...") }
BCheck ==
    /\ bpc = "check"
    /\ warned' = (bi < Half(bpeers))
    /\ bpc' = "dht"
    /\ UNCHANGED <<bpeers, bnext, bi, gpc, dialOk, dialErr, wg, cpc, chClosed>>
    /\ UNCHANGED pipelineVars
    /\ UNCHANGED connVars

\* p.dht.Bootstrap(p.ctx) returns, with an error that is logged or with
\* none, and Bootstrap returns
BDht ==
    /\ bpc = "dht"
    /\ bpc' = "done"
    /\ UNCHANGED <<bpeers, bnext, bi, warned, gpc, dialOk, dialErr, wg, cpc,
                   chClosed>>
    /\ UNCHANGED pipelineVars
    /\ UNCHANGED connVars

NextBootstrap ==
    \/ \E n \in 0..MaxPeers : BCall(n)
    \/ BLaunch
    \/ BLaunchCloser
    \/ \E p \in Peers : GDial(p)
    \/ \E p \in Peers : BReceive(p)
    \/ \E p \in Peers : GDone(p)
    \/ CClose
    \/ BRangeEnd
    \/ BCheck
    \/ BDht

SpecBootstrap == Init /\ [][NextBootstrap]_vars

\* Scheduling of Bootstrap: every goroutine that can take a step takes it,
\* and every Connect and dht.Bootstrap returns
FairnessBootstrap ==
    /\ WF_vars(BLaunch)
    /\ WF_vars(BLaunchCloser)
    /\ \A p \in Peers : WF_vars(GDial(p))
    /\ \A p \in Peers : WF_vars(BReceive(p))
    /\ \A p \in Peers : WF_vars(GDone(p))
    /\ WF_vars(CClose)
    /\ WF_vars(BRangeEnd)
    /\ WF_vars(BCheck)
    /\ WF_vars(BDht)

SpecBootstrapFair == SpecBootstrap /\ FairnessBootstrap

\* ------------------------------------------------------------------------
\* IPFSStorage.connectToPeers: the addresses are parsed into the map
\* peerInfos, then one connecting goroutine per entry of the map
\* ------------------------------------------------------------------------
otherVars == <<ledgerVars, uploadVars, hubVars, bootVars>>

\* An address string: the peer ID it names, and whether
\* multiaddr.NewMultiaddr and peer.AddrInfoFromP2pAddr accept it
Addrs == [peer : PeerIDs, good : BOOLEAN]

AddrLists == UNION {[1..n -> Addrs] : n \in 0..MaxAddrs}

\* connectToPeers(peers) is called with a list of addresses
KCall(list) ==
    /\ kpc = "idle"
    /\ kaddrs' = list
    /\ kpc' = "parse"
    /\ UNCHANGED <<knext, kinfos, kwg, kg, kok, kerr, kret>>
    /\ UNCHANGED otherVars

\* One turn of the parsing loop: an address that does not parse makes the
\* routine return the error; a parsed one is put in the map under its
\* peer ID
KParse ==
    /\ kpc = "parse"
    /\ knext <= Len(kaddrs)
    /\ IF kaddrs[knext].good
       THEN /\ kinfos' = kinfos \cup {kaddrs[knext].peer}
            /\ knext' = knext + 1
            /\ UNCHANGED <<kpc, kret>>
       ELSE /\ kret' = "err"
            /\ kpc' = "done"
            /\ UNCHANGED <<kinfos, knext>>
    /\ UNCHANGED <<kaddrs, kwg, kg, kok, kerr>>
    /\ UNCHANGED otherVars

\* wg.Add(len(peerInfos)) and the loop that starts one goroutine per entry
KLaunch ==
    /\ kpc = "parse"
    /\ knext > Len(kaddrs)
    /\ kwg' = Cardinality(kinfos)
    /\ kg' = [id \in PeerIDs |-> IF id \in kinfos THEN "dial" ELSE kg[id]]
    /\ kpc' = "wait"
    /\ UNCHANGED <<kaddrs, knext, kinfos, kok, kerr, kret>>
    /\ UNCHANGED otherVars

\* s.ipfsApi.Swarm().Connect returns in the goroutine of peer id, its
\* outcome is logged, and the deferred wg.Done() runs
KDial(id) ==
    /\ kg[id] = "dial"
    /\ \/ kok' = kok \cup {id} /\ UNCHANGED kerr
       \/ kerr' = kerr \cup {id} /\ UNCHANGED kok
    /\ kg' = [kg EXCEPT ![id] = "done"]
    /\ kwg' = kwg - 1
    /\ UNCHANGED <<kpc, kaddrs, knext, kinfos, kret>>
    /\ UNCHANGED otherVars

\* wg.Wait() returns and the routine returns nil
KReturn ==
    /\ kpc = "wait"
    /\ kwg = 0
    /\ kret' = "nil"
    /\ kpc' = "done"
    /\ UNCHANGED <<kaddrs, knext, kinfos, kwg, kg, kok, kerr>>
    /\ UNCHANGED otherVars

NextConnect ==
    \/ \E list \in AddrLists : KCall(list)
    \/ KParse
    \/ KLaunch
    \/ \E id \in PeerIDs : KDial(id)
    \/ KReturn

SpecConnect == Init /\ [][NextConnect]_vars

\* ------------------------------------------------------------------------
\* Properties
\* ------------------------------------------------------------------------
Range(f) == {f[i] : i \in DOMAIN f}

LedgerSrcs == {ledger[i].src : i \in 1..Len(ledger)}
PublishedSrcs == {published[i].src : i \in 1..Len(published)}

\* The src tags of request r in a sequence of tagged entries, in order
SrcsOfReq(entries, r) ==
    LET mine == SelectSeq(entries, LAMBDA e : e.src[1] = r)
    IN [i \in 1..Len(mine) |-> mine[i].src]

\* <<r, 1>>, ..., <<r, n>>
FirstParts(r, n) == [i \in 1..n |-> <<r, i>>]

\* The delivery loop has sent the current event to every connection it had
\* to visit and is about to unlock
DeliveryDone == wpc = "range" /\ wtodo = {}

\* Number of messages of inbox box that carry event number n
Count(box, n) == Cardinality({i \in 1..Len(box) : box[i].seq = n})

\* C1: every record in the ledger belongs to a file part whose AddFile
\* (Store) had returned success, its bytes being in the Content Store; no
\* path of the upload handler appends a record for a part whose Store
\* failed or was never called.
C1_LedgerOnlyStored ==
    \A i \in 1..Len(ledger) :
        LET src == ledger[i].src
        IN /\ src \in stored
           /\ src \notin storeFailed
           /\ CidOf(up[src[1]].files[src[2]].Content) \in store

\* C1 witness: the ledger holds a record while some part's Store has failed
C1_Witness == ledger # <<>> /\ storeFailed # {}

\* C2: when the delivery of a published event is done, every connection that
\* is registered and whose transport has stayed open has received exactly
\* one message for that event, equal to it; and no connection ever holds two
\* messages for the same event.
C2_FanOut ==
    /\ \A c \in Conns : \A i \in 1..Len(inbox[c]) :
          /\ Count(inbox[c], inbox[c][i].seq) = 1
          /\ inbox[c][i].seq \in 1..Len(published)
          /\ inbox[c][i].info = published[inbox[c][i].seq].info
    /\ DeliveryDone =>
          \A c \in Conns :
             (ws[c] = "read" /\ alive[c]) =>
                Count(inbox[c], Len(published)) = 1

\* C2 witness: a delivery is done with every connection registered and live,
\* each holding the event
C2_Witness ==
    /\ DeliveryDone
    /\ \A c \in Conns :
          ws[c] = "read" /\ alive[c] /\ Count(inbox[c], Len(published)) = 1

\* C3: every connection receives its events in the order in which they were
\* published: the publication numbers of its messages increase.
C3_PublishOrder ==
    \A c \in Conns : \A i, j \in 1..Len(inbox[c]) :
        i < j => inbox[c][i].seq < inbox[c][j].seq

\* C3 witness: a connection holds two events that came from two different
\* upload requests
C3_Witness ==
    \E c \in Conns :
        /\ Len(inbox[c]) >= 2
        /\ published[inbox[c][1].seq].src[1] # published[inbox[c][2].seq].src[1]

\* C4: a connection that was in the registry with its transport closed when
\* an event was published is out of the registry when the delivery of that
\* event is done; a failed send closes the connection and deletes it from
\* the registry in the same turn of the loop; a connection with a closed
\* transport or closed by the server gets no message any more, and the only
\* way into the registry is the registration of a new connection.
C4_DeadPruned ==
    /\ [](DeliveryDone => deadObs \cap clients = {})
    /\ [][\A c \in Conns :
             /\ (c \in wtodo /\ c \notin wtodo' /\ ~WriteOk(c))
                   => (closed'[c] /\ c \notin clients')
             /\ (~alive[c] \/ closed[c]) => inbox'[c] = inbox[c]
             /\ (c \notin clients /\ c \in clients') => ws[c] = "reg"]_vars

\* C4 witness: a delivery is done, and a connection that was registered with
\* a closed transport at the publish has been closed by the worker while its
\* own handler is still in its read loop
C4_Witness ==
    /\ DeliveryDone
    /\ \E c \in deadObs : closed[c] /\ ws[c] = "read" /\ c \notin clients

\* C5: a request answered 200 for parts f1..fn has the n FileInfos in part
\* order in its answer, its n lines in the ledger in that order, and its n
\* events published in that order.
C5_PartOrder ==
    \A r \in Reqs :
        up[r].status = 200 =>
           LET n == Len(up[r].files)
               want == [i \in 1..n |-> InfoOf(up[r].files[i])]
               lines == SelectSeq(ledger, LAMBDA e : e.src[1] = r)
               events == SelectSeq(published, LAMBDA e : e.src[1] = r)
           IN /\ up[r].body = want
              /\ lines = [i \in 1..n |->
                            [line |-> FormatLine(want[i].Filename, want[i].CID,
                                                 want[i].Size, want[i].Type),
                             src |-> <<r, i>>]]
              /\ events = [i \in 1..n |-> [info |-> want[i], src |-> <<r, i>>]]

\* C5 witness: a request with two parts has been answered 200
C5_Witness == \E r \in Reqs : up[r].status = 200 /\ Len(up[r].files) = 2

\* C6: ledger round trip: with no corrupted line in the file, a GET /files
\* that can open the file returns, for every record appended so far, a
\* record equal to it field for field at the position of its append.
C6_RoundTrip ==
    [][(ledger' = ledger /\ Corrupted = 0 /\ getStatus' = 200) =>
          \A i \in 1..Len(appended) :
              /\ i <= Len(getBody')
              /\ getBody'[i].info = appended[i].info]_vars

\* C7: malformed-line tolerance: with one corrupted line in the file, at any
\* position, a GET /files that can open the file returns exactly the
\* appended records, in their order.
C7_Tolerance ==
    [][(ledger' = ledger /\ Corrupted = 1 /\ getStatus' = 200) =>
          Body(getBody') = [i \in 1..Len(appended) |-> appended[i].info]]_vars

C9_StoreFailure ==
    \A src \in storeFailed :
        LET r == src[1]
            i == src[2]
        IN /\ up[r].pc = "done"
           /\ up[r].status = 500
           /\ storeCalls[r] = i
           /\ {s \in stored : s[1] = r} = Range(FirstParts(r, i - 1))
           /\ SrcsOfReq(ledger, r) = FirstParts(r, i - 1)
           /\ SrcsOfReq(published, r) = FirstParts(r, i - 1)

\* C9 witness: the Store of a second part has failed
C9_Witness == \E src \in storeFailed : src[2] = 2

\* C10: a request answered with a 4xx status has made no Store call, has no
\* line in the ledger and no published event.
C10_NoSideEffectsOn4xx ==
    \A r \in Reqs :
        up[r].status \in 400..499 =>
           /\ storeCalls[r] = 0
           /\ \A src \in LedgerSrcs \cup PublishedSrcs \cup stored : src[1] # r

\* C11: every file whose ledger append succeeded gives one event: it is
\* published at most once, and as long as it is not published its handler
\* is at the send for it. Under fair scheduling a handler at its send
\* eventually gets past it, and an event taken by the worker is eventually
\* delivered to the end: the loop visits the registry as it is when the
\* worker has locked it, and a connection leaves the connections to visit
\* only by a send attempt (a message written, or the connection closed).
C11_NoDrop ==
    /\ [](\A i \in 1..Len(appended) :
             LET src == appended[i].src
                 n == Cardinality({j \in 1..Len(published) :
                                      published[j].src = src})
             IN /\ n <= 1
                /\ n = 0 => (up[src[1]].pc = "send" /\ up[src[1]].idx = src[2]))
    /\ [](\A j \in 1..Len(published) :
             \E i \in 1..Len(appended) : appended[i] = published[j])
    /\ \A r \in Reqs : (up[r].pc = "send") ~> (up[r].pc # "send")
    /\ (wpc # "recv") ~> DeliveryDone
    /\ [][/\ (wpc = "lock" /\ wpc' = "range") => wtodo' = clients
          /\ (wpc = "range" /\ wpc' = "recv") => wtodo = {}
          /\ \A c \in Conns :
                (c \in wtodo /\ c \notin wtodo') =>
                   \/ inbox'[c] = Append(inbox[c], [seq |-> Len(published),
                                                    info |-> wfile.info])
                   \/ (~closed[c] /\ closed'[c])
                   \/ (closed[c] /\ c \notin clients')]_vars

\* C11 witness: a handler waits at its send while the worker is in the
\* delivery loop of an earlier event, with a connection still to visit
C11_Witness ==
    \E r \in Reqs : up[r].pc = "send" /\ wpc = "range" /\ wtodo # {}

\* A step of GET /files answered 200, in the specification of uploads and
\* GET /files (every other step moves an upload handler or the worker)
GetStep == up' = up /\ wpc' = wpc /\ getStatus' = 200

\* Is sequence s a prefix of sequence t
IsPrefix(s, t) == Len(s) <= Len(t) /\ SubSeq(t, 1, Len(s)) = s

\* C12: a GET /files answered 200 returns every record of every upload
\* request answered 200 before it, and the list returned by the GET /files
\* before it is a prefix of the list it returns.
C12_Durable ==
    [][GetStep =>
          /\ \A r \in Reqs : up[r].status = 200 =>
                \A i \in 1..Len(up[r].body) :
                    \E j \in 1..Len(getBody') :
                        /\ getBody'[j].info = up[r].body[i]
                        /\ getBody'[j].src = <<r, i>>
          /\ getStatus = 200 => IsPrefix(getBody, getBody')]_vars

\* C13: with several upload requests appending to the ledger, the file
\* holds one complete line per successful append and nothing else, in the
\* order of the appends, and a GET /files answered 200 returns every
\* appended record, equal to it field for field.
C13_Serialized ==
    /\ [](ledger = [i \in 1..Len(appended) |->
                      [line |-> FormatLine(appended[i].info.Filename,
                                           appended[i].info.CID,
                                           appended[i].info.Size,
                                           appended[i].info.Type),
                       src |-> appended[i].src]])
    /\ [][GetStep => getBody' = appended]_vars

\* The handlers that are between their mu.Lock() and their mu.Unlock()
InRegistry == {c \in Conns : ws[c] \in {"reg", "del"}}

\* C14: the registration and the teardown of the WebSocket handlers and the
\* loop of the worker exclude each other: at most one of them is between
\* its Lock and its Unlock, and it is the holder of the mutex; the registry
\* changes only in a step of the holder, and the worker reads the registry
\* for its loop only as it takes the mutex.
C14_Mutex ==
    /\ [](/\ Cardinality(InRegistry) + (IF wpc = "range" THEN 1 ELSE 0) <= 1
          /\ \A c \in InRegistry : mu = MuConn(c)
          /\ wpc = "range" => mu = MuWorker
          /\ (InRegistry = {} /\ wpc # "range") => mu = MuFree)
    /\ [][/\ clients' # clients =>
                \/ mu = MuWorker /\ wpc = "range"
                \/ \E c \in InRegistry : mu = MuConn(c) /\ ws'[c] # ws[c]
          /\ wtodo' # wtodo =>
                \/ mu = MuFree /\ mu' = MuWorker
                \/ mu = MuWorker /\ wpc = "range"]_vars

\* C14 witness: the worker is in its loop with a connection to visit while
\* one handler waits to register and another waits to remove its connection
C14_Witness ==
    /\ wpc = "range" /\ wtodo # {}
    /\ \E c, d \in Conns :
          /\ ws[c] = "lock1"
          /\ ws[d] = "read" /\ ~alive[d]

\* C15: the removal by the read loop of a handler and the removal by the
\* worker after a failed send both leave the registry without the
\* connection and with every other connection as it was, whether the
\* connection was still in the registry or had been removed before; a
\* handler past its removal has its connection out of the registry.
C15_Idempotent ==
    /\ [][\A c \in Conns :
             /\ (ws[c] = "del" /\ ws'[c] = "close")
                   => clients' = clients \ {c}
             /\ (c \in wtodo /\ c \notin wtodo' /\ ~WriteOk(c))
                   => clients' = clients \ {c}]_vars
    /\ [](\A c \in Conns : ws[c] \in {"close", "done"} => c \notin clients)

\* C15 witness: the worker has closed and removed a connection after a
\* failed send, the handler of that connection has then removed it again,
\* and the other connection is still registered
C15_Witness ==
    \E c, d \in Conns :
        /\ ws[c] = "close" /\ closed[c] /\ c \notin clients
        /\ d # c /\ d \in clients

\* C16: a message is written to a connection only in the delivery loop of
\* the event it carries, to a connection that is registered and that the
\* loop had to visit, so no connection gets an event whose delivery was
\* over before it registered. The loop visits only connections that were
\* registered when it started: a handler registers only outside the loop,
\* and a connection that is not registered yet is not among the connections
\* to visit and has received nothing.
C16_NoReplay ==
    /\ [][\A c \in Conns :
             /\ inbox'[c] # inbox[c] =>
                   /\ wpc = "range" /\ mu = MuWorker
                   /\ c \in clients /\ c \in wtodo
                   /\ inbox'[c] = Append(inbox[c], [seq |-> Len(published),
                                                    info |-> wfile.info])
                   /\ wfile = published[Len(published)]
             /\ (c \in wtodo' /\ c \notin wtodo) =>
                   (wpc = "lock" /\ wpc' = "range" /\ c \in clients)
             /\ (c \notin clients /\ c \in clients') => wpc # "range"
             /\ wpc = "range" => Len(published') = Len(published)]_vars
    /\ [](\A c \in Conns :
             ws[c] \in {"upgrade", "lock1", "reg"} =>
                (c \notin clients /\ c \notin wtodo /\ inbox[c] = <<>>))

\* C16 witness: a connection that waited for the mutex during the delivery
\* of the first event, which the other connection has received, holds the
\* second event and not the first
C16_Witness ==
    \E c, d \in Conns :
        /\ Len(inbox[c]) = 1 /\ inbox[c][1].seq = 2
        /\ Len(inbox[d]) = 2 /\ inbox[d][1].seq = 1

\* The peers of the list given to Bootstrap
Listed == 1..bpeers

\* C17: once called, Bootstrap returns, whatever the outcomes of the dials:
\* every dialing goroutine gets to its Connect whatever became of the
\* others and ends, a goroutine at its send on connected gets past it, no
\* goroutine sends on the closed channel, a failed dial is logged and
\* nothing else, and Bootstrap goes on to dht.Bootstrap and returns after
\* every goroutine has ended.
C17_Terminates ==
    /\ (bpc # "idle") ~>
          (bpc = "done" /\ cpc = "done" /\ \A p \in Listed : gpc[p] = "done")
    /\ \A p \in Peers : (gpc[p] = "send") ~> (gpc[p] = "done")
    /\ \A p \in Peers : (gpc[p] = "dial") ~> (p \in dialOk \cup dialErr)
    /\ [](\A p \in Peers : gpc[p] = "send" => ~chClosed)
    /\ [](bpc \in {"check", "dht", "done"} =>
             /\ \A p \in Listed : gpc[p] = "done"
             /\ dialOk \cup dialErr = Listed
             /\ dialOk \cap dialErr = {}
             /\ wg = 0)
    /\ [][/\ bpc = "check" => bpc' = "dht"
          /\ bpc = "dht" => bpc' = "done"]_vars

\* C17 witness: Bootstrap has returned with every dial failed
C17_Witness == bpc = "done" /\ bpeers = MaxPeers /\ dialErr = Listed

\* C18: when Bootstrap has made its test, the warning has been logged if
\* and only if the number of connected peers is less than half of the
\* number of peers in the list, for lists of every length; and the routine
\* goes on to dht.Bootstrap whether it has warned or not.
C18_Warning ==
    /\ [](bpc \in {"dht", "done"} =>
             /\ bi = Cardinality(dialOk)
             /\ warned <=> (2 * bi < bpeers))
    /\ [][bpc = "check" => bpc' = "dht"]_vars

\* The worker's send to c fails in this step
SendFails(c) == wpc = "range" /\ c \in wtodo /\ c \notin wtodo' /\ ~WriteOk(c)

\* C19: a connection leaves the registry only in a step of the delivery
\* loop in which the send to it fails.
C19_OnlyFailedSend ==
    [][\A c \in Conns :
          (c \in clients /\ c \notin clients') => SendFails(c)]_vars

\* C19, amended: a connection leaves the registry only in a step of the
\* delivery loop in which the send to it fails, or in the step of its own
\* handler that follows a read error on it; the server takes no other step
\* that removes a connection.
C19_FailedSendOrReadError ==
    [][\A c \in Conns :
          (c \in clients /\ c \notin clients') =>
             \/ SendFails(c)
             \/ /\ ws[c] = "del" /\ ws'[c] = "close" /\ mu = MuConn(c)
                /\ ~alive[c] \/ closed[c]]_vars

\* C19 witness: with no event ever published, the handler of a connection
\* whose transport went down has removed it from the registry
C19_Witness ==
    \E c \in Conns :
        /\ published = <<>>
        /\ ws[c] = "close" /\ ~closed[c] /\ ~alive[c] /\ c \notin clients

\* The entries of request r in a set of <<request, part>> pairs
Mine(S, r) == {src \in S : src[1] = r}

\* C20: the answer of an upload request is fixed by its form and by the
\* outcomes of its own Open, Store and ledger calls, whatever the registry
\* holds and whatever becomes of the sends: it is 500 exactly when a Store
\* or a ledger append of the request failed, 200 exactly when every part of
\* the form was stored and appended, and 400 otherwise; the records of a
\* 200 are those of the parts of the form, and any other answer has none.
\* A step in which the worker sends, or a connection is closed, changes the
\* state of no upload handler.
C20_NoSurfacing ==
    /\ [](\A r \in Reqs : up[r].pc = "done" =>
             LET n == Len(up[r].files)
                 failed == Mine(storeFailed, r) \cup Mine(logFailed, r)
                 whole == /\ n >= 1
                          /\ Mine(stored, r) = Range(FirstParts(r, n))
                          /\ Mine(LedgerSrcs, r) = Range(FirstParts(r, n))
             IN /\ up[r].status = (IF failed # {} THEN 500
                                   ELSE IF whole THEN 200 ELSE 400)
                /\ up[r].body = (IF up[r].status = 200
                                 THEN [i \in 1..n |-> InfoOf(up[r].files[i])]
                                 ELSE <<>>))
    /\ [][(inbox' # inbox \/ closed' # closed \/ clients' # clients) =>
             up' = up]_vars

\* C20 witness: the only request that has published was answered 200, and
\* a send of one of its events failed: the worker has closed a connection
\* whose handler has not noticed yet, and the other connection got events
C20_Witness ==
    /\ up[1].status = 200 /\ up[2].pc = "parse"
    /\ \E c, d \in Conns :
          /\ closed[c] /\ ws[c] = "read" /\ c \notin clients
          /\ inbox[d] # <<>>

\* The part of the form behind a <<request, part>> pair
PartOf(src) == up[src[1]].files[src[2]]

\* Is the handler of src past the ledger append of that part
PastLog(src) ==
    \/ up[src[1]].idx > src[2]
    \/ up[src[1]].idx = src[2] /\ up[src[1]].pc \in {"send", "done"}

\* Is the handler of src past the send of the event of that part
PastSend(src) ==
    \/ up[src[1]].idx > src[2]
    \/ up[src[1]].idx = src[2] /\ up[src[1]].status = 200

\* C21: there is no deduplication: every part whose Store and ledger append
\* succeeded has a ledger line of its own, with the CID of its content, and
\* once its send is over an event of its own, whether or not the same
\* content, with the same CID, was uploaded before in the same request or
\* in another.
C21_NoDedup ==
    /\ Len(ledger) = Cardinality(LedgerSrcs)
    /\ Len(published) = Cardinality(PublishedSrcs)
    /\ \A i \in 1..Len(ledger) :
          LET fi == InfoOf(PartOf(ledger[i].src))
          IN ledger[i].line = FormatLine(fi.Filename, CidOf(PartOf(ledger[i].src).Content),
                                         fi.Size, fi.Type)
    /\ \A i \in 1..Len(published) :
          published[i].info.CID = CidOf(PartOf(published[i].src).Content)
    /\ \A src \in stored :
          /\ (PastLog(src) /\ src \notin logFailed) => src \in LedgerSrcs
          /\ (PastSend(src) /\ src \notin logFailed) => src \in PublishedSrcs

\* C21 witness: the same content was uploaded twice in one request and once
\* more in another: three ledger lines and three events carry its CID
C21_Witness ==
    /\ Len(ledger) = 3 /\ Len(published) = 3
    /\ \A i \in 1..3 : PartOf(ledger[i].src).Content = "A"
    /\ \A i \in 1..3 : published[i].info.CID = CidOf("A")
    /\ \E r \in Reqs : Len(up[r].files) = 2

\* C22: AddFile is called for a part of a request only when every earlier
\* part of the request has its line in the ledger and its event taken by
\* the worker; a request is answered 200 only when the events of all its
\* parts have been taken; and a request has at most one part that is stored
\* and whose event is not taken yet, and at most one event waiting at the
\* channel.
C22_Sequential ==
    /\ [][\A r \in Reqs :
             storeCalls'[r] # storeCalls[r] =>
                /\ storeCalls'[r] = storeCalls[r] + 1
                /\ storeCalls'[r] = up[r].idx
                /\ \A j \in 1..(up[r].idx - 1) :
                      <<r, j>> \in LedgerSrcs \cap PublishedSrcs]_vars
    /\ [](\A r \in Reqs :
             /\ up[r].status = 200 =>
                   \A j \in 1..Len(up[r].files) :
                       <<r, j>> \in LedgerSrcs \cap PublishedSrcs
             /\ Cardinality(Mine(stored, r) \ PublishedSrcs) <= 1
             /\ Cardinality(Mine(LedgerSrcs, r) \ PublishedSrcs) <= 1
             /\ Mine(LedgerSrcs, r) \ PublishedSrcs # {} =>
                   (up[r].pc = "send"
                    /\ Mine(LedgerSrcs, r) \ PublishedSrcs = {<<r, up[r].idx>>}))

\* C22 witness: a request is at the Store of its second part while the
\* worker is still in the delivery loop of the event of its first part,
\* and the other request waits at its send
C22_Witness ==
    \E r, q \in Reqs :
        /\ up[r].pc = "add" /\ up[r].idx = 2
        /\ wpc = "range" /\ wfile.src = <<r, 1>> /\ wtodo # {}
        /\ q # r /\ up[q].pc = "send"

\* Does a line carry field name key: one of its ", " parts is "key: value"
HasField(line, key) ==
    LET parts == Split(line, CommaSp)
    IN \E i \in 1..Len(parts) :
          LET kv == SplitN(parts[i], ColonSp, 2)
          IN Len(kv) = 2 /\ kv[1] = key

\* Does a line carry each of the four field names
HasFields(line) ==
    \A key \in {KFilename, KCID, KSize, KType} : HasField(line, key)

\* C23: a GET /files that can open the file returns no record for a line
\* that lacks one of the four field names Filename, CID, Size and Type.
C23_MissingFieldSkipped ==
    [][(ledger' = ledger /\ getStatus' = 200) =>
          \A i \in 1..Len(ledger) :
              ~HasFields(ledger[i].line) =>
                 \A j \in 1..Len(getBody') : getBody'[j].src # ledger[i].src]_vars

\* The peers whose goroutine has completed its send on connected
Signalled == {p \in dialOk : gpc[p] \in {"exit", "done"}}

\* C24: the counter of Bootstrap is at every moment the number of
\* goroutines that have completed their send, one per successful dial; the
\* channel is closed only when every goroutine of the list has ended; and
\* when the loop is over and the count is tested, every dial has returned
\* and the count is the number of dials that succeeded.
C24_CountExact ==
    /\ bi = Cardinality(Signalled)
    /\ chClosed => \A p \in Listed : gpc[p] = "done"
    /\ bpc \in {"check", "dht", "done"} =>
          /\ chClosed
          /\ dialOk \cup dialErr = Listed
          /\ Signalled = dialOk
          /\ bi = Cardinality(dialOk)
          /\ bi + Cardinality(dialErr) = bpeers

\* C24 witness: the count is tested with two dials succeeded and one failed
C24_Witness ==
    /\ bpc = "check" /\ bpeers = 3
    /\ Cardinality(dialOk) = 2 /\ Cardinality(dialErr) = 1 /\ bi = 2

\* C25: a GET /files that can open the file answers 200 with a JSON array;
\* when the file is empty or holds only lines that logFileInfo writes for
\* no record, the array is empty.
C25_AlwaysArray ==
    [][(ledger' = ledger /\ getStatus' = 200) =>
          /\ getJSON'.kind = "array"
          /\ Len(getJSON'.items) = Len(getBody')
          /\ (\A i \in 1..Len(ledger) : ledger[i].src = CorruptSrc) =>
                getJSON'.items = <<>>]_vars

\* C26: when connectToPeers has returned, every address of the list that a
\* peer can be reached at has had its attempt: Connect was called for its
\* peer and has returned, whatever became of the other addresses of the
\* list; and the routine returns only when no goroutine is still running.
C26_Independent ==
    kpc = "done" =>
       /\ \A i \in 1..Len(kaddrs) :
             kaddrs[i].good => kaddrs[i].peer \in kok \cup kerr
       /\ \A id \in PeerIDs : kg[id] \in {"idle", "done"}

\* C27: every message a connection holds is the record of a line that was
\* in the ledger when the message was sent, and GET /files would list that
\* record: the reader returns it from the ledger as it is.
C27_SentIsListed ==
    /\ [][\A c \in Conns :
             inbox'[c] # inbox[c] =>
                \E i \in 1..Len(ledger) :
                    /\ ledger[i].src = wfile.src
                    /\ appended[i].info = wfile.info
                    /\ inbox'[c][Len(inbox'[c])].info = appended[i].info]_vars
    /\ [](\A c \in Conns : \A k \in 1..Len(inbox[c]) :
             \E t \in Range(ReadLedger(ledger)) :
                 /\ t.info = inbox[c][k].info
                 /\ t.src = published[inbox[c][k].seq].src)

\* Position in the ledger of the line of a <<request, part>> pair
LedgerPos(src) == CHOOSE i \in 1..Len(ledger) : ledger[i].src = src

\* The <<request, part>> pair of the k-th message of connection c
MsgSrc(c, k) == published[inbox[c][k].seq].src

\* C28: every connection receives its events in the order of their lines
\* in the ledger, whichever requests they come from.
C28_LedgerOrder ==
    \A c \in Conns : \A i, j \in 1..Len(inbox[c]) :
        i < j => LedgerPos(MsgSrc(c, i)) < LedgerPos(MsgSrc(c, j))

\* C28, amended: every connection receives the events of one upload request
\* in the order of their lines in the ledger.
C28_LedgerOrderPerRequest ==
    \A c \in Conns : \A i, j \in 1..Len(inbox[c]) :
        (i < j /\ MsgSrc(c, i)[1] = MsgSrc(c, j)[1]) =>
           LedgerPos(MsgSrc(c, i)) < LedgerPos(MsgSrc(c, j))

\* C28 witness: a connection holds the two events of one request in the
\* order of their lines, and before them the event of another request
\* whose line comes after the first of them in the ledger
C28_Witness ==
    \E c \in Conns :
        /\ Len(inbox[c]) = 3
        /\ MsgSrc(c, 2)[1] = MsgSrc(c, 3)[1]
        /\ MsgSrc(c, 1)[1] # MsgSrc(c, 2)[1]
        /\ LedgerPos(MsgSrc(c, 2)) < LedgerPos(MsgSrc(c, 1))

\* C29: while nobody holds the mutex, no connection of the registry has
\* been closed by the server; whoever closes a connection, the worker
\* after a failed send or a handler as it returns, the connection is out
\* of the registry when the step is over; and the worker never sends on a
\* connection that the server has closed.
C29_NoClosedRegistered ==
    /\ [](mu = MuFree => \A c \in clients : ~closed[c])
    /\ [][\A c \in Conns :
             /\ (~closed[c] /\ closed'[c]) => c \notin clients'
             /\ (c \in wtodo /\ c \notin wtodo') => ~closed[c]]_vars

\* C29 witness: the mutex is free, the worker has closed a connection whose
\* handler is still in its read loop, and the handler of another
\* connection, which had received an event, has closed it on its return,
\* the first being still registered at that time or not
C29_Witness ==
    /\ mu = MuFree
    /\ \E c, d \in Conns :
          /\ closed[c] /\ ws[c] = "read"
          /\ closed[d] /\ ws[d] = "done" /\ inbox[d] # <<>>

====
